---- MODULE Spec2Model ----
(***************************************************************************)
(* income-tracker: the payment-extraction and deduplication pipeline.      *)
(*                                                                         *)
(* Text (a From header, a subject, a body) is a sequence of tokens; a      *)
(* substring test is a token-membership test.  A datetime is [day, time],   *)
(* a calendar day and a time of day.  A Decimal amount is [hi, cents],     *)
(* denoting hi * 2^47 dollars + cents / 100.                               *)
(***************************************************************************)
EXTENDS Integers, Sequences, FiniteSets, TLC

\* ---------------------------------------------------------------- bounds
MaxClock == 1
MaxRestarts == 1
MaxFaults == 1
MaxFromLen == 2
MaxSubjectLen == 2
MaxScopes == 3
MaxBodyLen == 3
MaxCalls == 2
MaxRows == 3
MaxPending == 2

\* ------------------------------------------------------- generic helpers
Min(S) == CHOOSE x \in S : \A y \in S : x <= y

Contains(text, tok) == \E i \in DOMAIN text : text[i] = tok

\* ------------------------------------------------- models/payment.py
\* str.lower(): the tokens of the model that carry upper-case letters
Lower(tok) ==
    CASE tok = "ALERT@ZELLEPAY.COM" -> "alert@zellepay.com"
      [] tok = "Service@PayPal.com" -> "service@paypal.com"
      [] tok = "Payment" -> "payment"
      [] tok = "Received" -> "received"
      [] tok = "Paid You" -> "paid you"
      [] OTHER -> tok

LowerText(text) == [i \in DOMAIN text |-> Lower(text[i])]

PaymentSources_reversed == <<"PayPal", "CashApp", "Venmo", "Zelle">>

\* PaymentSource, in the insertion order of the patterns dict
PaymentSources == <<"Zelle", "Venmo", "CashApp", "PayPal">>

from_emails(source) ==
    CASE source = "Zelle" -> {"noreply@zellepay.com", "alert@zellepay.com"}
      [] source = "Venmo" -> {"venmo@venmo.com", "notifications@venmo.com"}
      [] source = "CashApp" -> {"cash@square.com", "support@cash.app"}
      [] source = "PayPal" -> {"service@paypal.com", "paypal@e.paypal.com"}

subject_keywords(source) ==
    CASE source = "Zelle" -> {"sent you", "received", "payment"}
      [] source = "Venmo" -> {"paid you", "charged you", "payment"}
      [] source = "CashApp" -> {"sent you", "received", "payment"}
      [] source = "PayPal" -> {"sent you", "received", "payment"}

\* the verb of the first alternative of name_pattern
name_verb(source) == IF source = "Venmo" THEN "paid you" ELSE "sent you"

matches_sender(source, from_email) ==
    \E sender \in from_emails(source) : Contains(LowerText(from_email), sender)

matches_subject(source, subject) ==
    \E keyword \in subject_keywords(source) : Contains(LowerText(subject), keyword)

\* ------------------------------------------- core/payment_processor.py
Matching(from_email, subject) ==
    {i \in DOMAIN PaymentSources :
        /\ matches_sender(PaymentSources[i], from_email)
        /\ matches_subject(PaymentSources[i], subject)}

Max(S) == CHOOSE x \in S : \A y \in S : x >= y

identify_payment_source_last(from_email, subject) ==
    IF Matching(from_email, subject) = {} THEN "None"
    ELSE PaymentSources[Max(Matching(from_email, subject))]

identify_payment_source(from_email, subject) ==
    IF Matching(from_email, subject) = {} THEN "None"
    ELSE PaymentSources[Min(Matching(from_email, subject))]

\* the first three characters of a sender address as code points: str
\* comparison goes by code point, and no two addresses share three
code_points(addr) ==
    CASE addr = "noreply@zellepay.com" -> <<110, 111, 114>>
      [] addr = "alert@zellepay.com" -> <<97, 108, 101>>
      [] addr = "venmo@venmo.com" -> <<118, 101, 110>>
      [] addr = "notifications@venmo.com" -> <<110, 111, 116>>
      [] addr = "cash@square.com" -> <<99, 97, 115>>
      [] addr = "support@cash.app" -> <<115, 117, 112>>
      [] addr = "service@paypal.com" -> <<115, 101, 114>>
      [] addr = "paypal@e.paypal.com" -> <<112, 97, 121>>

\* a < b for two str
StrLess(a, b) ==
    \E k \in 1..3 :
        /\ \A j \in 1..(k - 1) : code_points(a)[j] = code_points(b)[j]
        /\ code_points(a)[k] < code_points(b)[k]

\* the elements of a frozenset in the order iteration yields them (some
\* order; sorted() below makes the result independent of it)
RECURSIVE Iterate(_)
Iterate(S) ==
    IF S = {} THEN <<>>
    ELSE LET x == CHOOSE y \in S : TRUE IN <<x>> \o Iterate(S \ {x})

\* senders after the for loop over self.patterns.values(), from provider i
\* on: list.extend keeps repeated addresses
RECURSIVE ExtendFrom(_)
ExtendFrom(i) ==
    IF i > Len(PaymentSources) THEN <<>>
    ELSE Iterate(from_emails(PaymentSources[i])) \o ExtendFrom(i + 1)

RECURSIVE Insert(_, _)
Insert(x, seq) ==
    IF seq = <<>> THEN <<x>>
    ELSE IF StrLess(x, Head(seq)) THEN <<x>> \o seq
    ELSE <<Head(seq)>> \o Insert(x, Tail(seq))

\* sorted(list)
RECURSIVE sorted(_)
sorted(seq) == IF seq = <<>> THEN <<>> ELSE Insert(Head(seq), sorted(Tail(seq)))

get_supported_senders_unsorted == ExtendFrom(1)

\* sorted(senders)
get_supported_senders == sorted(ExtendFrom(1))

\* the tokens amount_pattern \$([0-9,]+\.?[0-9]*) matches
AmountTokens ==
    {"$75.00", "$20.00", "$,", "$140737488355328.00", "$140737488355328.01"}

\* match.group(1).replace(',', '')
amount_str(tok) ==
    CASE tok = "$75.00" -> "75.00"
      [] tok = "$20.00" -> "20.00"
      [] tok = "$," -> ""
      [] tok = "$140737488355328.00" -> "140737488355328.00"
      [] tok = "$140737488355328.01" -> "140737488355328.01"

\* Decimal(amount_str); 140737488355328 = 2^47
Decimal(s) ==
    CASE s = "75.00" -> [ok |-> TRUE, hi |-> 0, cents |-> 7500]
      [] s = "20.00" -> [ok |-> TRUE, hi |-> 0, cents |-> 2000]
      [] s = "140737488355328.00" -> [ok |-> TRUE, hi |-> 1, cents |-> 0]
      [] s = "140737488355328.01" -> [ok |-> TRUE, hi |-> 1, cents |-> 1]
      [] OTHER -> [ok |-> FALSE, hi |-> 0, cents |-> 0]

extract_amount_one_kind(text) ==
    LET hits == {i \in DOMAIN text : text[i] \in AmountTokens} IN
    IF hits = {} THEN [ok |-> FALSE, kind |-> "not_found", hi |-> 0, cents |-> 0]
    ELSE LET d == Decimal(amount_str(text[Min(hits)])) IN
         IF d.ok THEN [ok |-> TRUE, kind |-> "ok", hi |-> d.hi, cents |-> d.cents]
         ELSE [ok |-> FALSE, kind |-> "not_found", hi |-> 0, cents |-> 0]

\* PaymentProcessorError is the result [ok |-> FALSE]; kind tells its two
\* messages apart
extract_amount(text) ==
    LET hits == {i \in DOMAIN text : text[i] \in AmountTokens} IN
    IF hits = {} THEN [ok |-> FALSE, kind |-> "not_found", hi |-> 0, cents |-> 0]
    ELSE LET d == Decimal(amount_str(text[Min(hits)])) IN
         IF d.ok THEN [ok |-> TRUE, kind |-> "ok", hi |-> d.hi, cents |-> d.cents]
         ELSE [ok |-> FALSE, kind |-> "malformed", hi |-> 0, cents |-> 0]

\* the tokens [A-Za-z]+\s+[A-Za-z]+(?:\s+[A-Za-z]+)? matches
NameTokens == {"John Smith", "Jane Doe"}

\* re.search(name_pattern, text, re.IGNORECASE).groups(): the two capture
\* groups of the leftmost match, "" for the group of the alternative that
\* did not match; <<>> when the pattern does not match
name_groups(text, source) ==
    LET hits == {i \in DOMAIN text :
                   /\ i + 1 \in DOMAIN text
                   /\ \/ text[i] \in NameTokens /\ Lower(text[i + 1]) = name_verb(source)
                      \/ Lower(text[i]) = "from" /\ text[i + 1] \in NameTokens} IN
    IF hits = {} THEN <<>>
    ELSE IF text[Min(hits)] \in NameTokens THEN <<text[Min(hits)], "">>
    ELSE <<"", text[Min(hits) + 1]>>

\* str.strip(): a capture group of name_pattern begins and ends with a
\* letter, so only an empty group is affected
strip(group) == IF group \in NameTokens THEN group ELSE ""

\* the first group that is not empty, stripped; "Unknown" without one
extract_client_name(text, source) ==
    LET groups == name_groups(text, source)
        filled == {k \in DOMAIN groups : groups[k] # "" /\ strip(groups[k]) # ""} IN
    IF filled = {} THEN "Unknown" ELSE strip(groups[Min(filled)])

\* email.utils.parsedate_to_datetime on the Date headers of the model
\* (day 0 of the model is 2 November 2026)
ParsableDates == {"Mon, 02 Nov 2026 10:00:00 +0000"}

\* Date headers at which parsedate_to_datetime raises neither ValueError
\* nor TypeError: OverflowError for a year beyond a C int, AttributeError
\* for the Header object that a header with a raw 8-bit byte is read as
UncaughtDates ==
    {"1 Jan 99999999999 00:00:00 +0000", "Header(Mon, 02 Nov 2026 10:00:00 +0000 (caf 0xE9))"}

\* every other header ("" for a missing one) raises ValueError
DateHeaders == ParsableDates \cup UncaughtDates \cup {"", "yesterday"}

\* [raised, value]: datetime.now() on ValueError and TypeError only
parse_email_date(date_header, now) ==
    IF date_header \in ParsableDates
    THEN [raised |-> FALSE, value |-> [day |-> 0, time |-> "10:00:00"]]
    ELSE IF date_header \in UncaughtDates THEN [raised |-> TRUE, value |-> now]
    ELSE [raised |-> FALSE, value |-> now]

\* datetime.strftime("%Y-%m-%d")
strftime_date(dt) == dt.day

\* datetime.strftime("%Y-%m-%d %H:%M:%S")
strftime_datetime(dt) == <<dt.day, dt.time>>

\* float(Decimal): the nearest IEEE double.  Below 2^47 dollars distinct
\* cent amounts have distinct doubles; from 2^47 the doubles are 1/32 apart,
\* and 2^47 + c/100 rounds to 2^47 + ((16c + 25) \div 50) / 32.
float(amount) ==
    IF amount.hi = 0 THEN <<0, amount.cents>>
    ELSE <<amount.hi, (16 * amount.cents + 25) \div 50>>

\* ------------------------------------------------ core/email_client.py
\* The mailbox: IMAP message number |-> message.  A Subject header is a
\* sequence of chunks as decode_header returns them; a body is a sequence of
\* MIME parts (one part when the message is not multipart).
PlainChunk(text) == [bytes |-> FALSE, utf8 |-> TRUE, text |-> text]
Part(ctype, utf8, payload) == [ctype |-> ctype, utf8 |-> utf8, payload |-> payload]
GoodDate == "Mon, 02 Nov 2026 10:00:00 +0000"

Mailbox ==
    << [from |-> <<"alert@zellepay.com">>,
        subject |-> <<PlainChunk(<<"Payment", "received">>)>>,
        multipart |-> FALSE,
        parts |-> <<Part("text/plain", TRUE, <<"John Smith", "sent you", "$75.00">>)>>,
        date |-> GoodDate],
       [from |-> <<"Zelle", "ALERT@ZELLEPAY.COM">>,
        subject |-> <<[bytes |-> TRUE, utf8 |-> FALSE, text |-> <<"payment">>]>>,
        multipart |-> FALSE,
        parts |-> <<Part("text/plain", TRUE, <<"$20.00">>)>>,
        date |-> GoodDate],
       [from |-> <<"alert@zellepay.com">>,
        subject |-> <<PlainChunk(<<"payment">>)>>,
        multipart |-> FALSE,
        parts |-> <<Part("text/plain", TRUE, <<"$20.00", "from", "Jane Doe">>)>>,
        date |-> GoodDate],
       [from |-> <<"cash@square.com", "support@cash.app">>,
        subject |-> <<PlainChunk(<<"receipt">>)>>,
        multipart |-> FALSE,
        parts |-> <<Part("text/plain", TRUE, <<"$20.00">>)>>,
        date |-> GoodDate],
       [from |-> <<"cash@square.com">>,
        subject |-> <<PlainChunk(<<"payment">>)>>,
        multipart |-> FALSE,
        parts |-> <<Part("text/plain", TRUE, <<"John Smith", "sent you", "$,">>)>>,
        date |-> GoodDate],
       [from |-> <<"noreply@zellepay.com">>,
        subject |-> <<PlainChunk(<<"John Smith", "sent you", "money">>)>>,
        multipart |-> TRUE,
        parts |-> <<Part("text/html", TRUE, <<"$20.00">>),
                    Part("text/plain", TRUE, <<"John Smith", "sent you", "$75.00">>)>>,
        date |-> GoodDate],
       [from |-> <<"PayPal", "Service@PayPal.com">>,
        subject |-> <<PlainChunk(<<"payment">>)>>,
        multipart |-> FALSE,
        parts |-> <<Part("text/plain", TRUE, <<"$140737488355328.00", "from", "John Smith">>)>>,
        date |-> GoodDate],
       [from |-> <<"service@paypal.com">>,
        subject |-> <<PlainChunk(<<"payment">>)>>,
        multipart |-> FALSE,
        parts |-> <<Part("text/plain", TRUE, <<"$140737488355328.01", "from", "John Smith">>)>>,
        date |-> GoodDate],
       [from |-> <<"venmo@venmo.com">>,
        subject |-> <<PlainChunk(<<"Jane Doe", "Paid You">>)>>,
        multipart |-> FALSE,
        parts |-> <<Part("text/plain", TRUE, <<"$20.00">>)>>,
        date |-> ""] >>

EmailIds == DOMAIN Mailbox

\* mail.search(None, '(FROM "sender")'): the message numbers, ascending, of
\* the messages whose From header contains sender (case-insensitive)
RECURSIVE SearchFrom(_, _)
SearchFrom(sender, i) ==
    IF i > Len(Mailbox) THEN <<>>
    ELSE IF Contains(LowerText(Mailbox[i].from), sender)
         THEN <<i>> \o SearchFrom(sender, i + 1)
    ELSE SearchFrom(sender, i + 1)

search_emails(sender) == SearchFrom(sender, 1)

\* decode_header(subject)[0][0], then bytes.decode() (UTF-8)
decode_subject(msg) ==
    IF msg.subject = <<>> THEN [raised |-> FALSE, text |-> <<>>]
    ELSE IF msg.subject[1].bytes /\ ~msg.subject[1].utf8
         THEN [raised |-> TRUE, text |-> <<>>]
    ELSE [raised |-> FALSE, text |-> msg.subject[1].text]

\* the first text/plain part with a payload, or the payload of a message
\* that is not multipart; payload.decode() is UTF-8
extract_body(msg) ==
    LET hits == IF msg.multipart
                THEN {i \in DOMAIN msg.parts :
                        msg.parts[i].ctype = "text/plain" /\ msg.parts[i].payload # <<>>}
                ELSE {i \in DOMAIN msg.parts : msg.parts[i].payload # <<>>} IN
    IF hits = {} THEN [raised |-> FALSE, text |-> <<>>]
    ELSE IF ~msg.parts[Min(hits)].utf8 THEN [raised |-> TRUE, text |-> <<>>]
    ELSE [raised |-> FALSE, text |-> msg.parts[Min(hits)].payload]

\* ------------------------------------------- core/payment_processor.py
NoRecord == [date |-> [day |-> 0, time |-> ""], amount |-> [hi |-> 0, cents |-> 0],
             source |-> "None", client_name |-> "", email_subject |-> <<>>,
             processed_at |-> [day |-> 0, time |-> ""]]

\* PaymentProcessor.process_email: [found, raised, why, record]; only
\* PaymentProcessorError is caught
process_email(msg, body, subject, now) ==
    LET source == identify_payment_source(msg.from, subject)
        combined_text == body \o subject
        amount == extract_amount(combined_text)
        payment_date == parse_email_date(msg.date, now) IN
    IF source = "None"
    THEN [found |-> FALSE, raised |-> FALSE, why |-> "no_provider", record |-> NoRecord]
    ELSE IF ~amount.ok
    THEN [found |-> FALSE, raised |-> FALSE, why |-> amount.kind, record |-> NoRecord]
    ELSE IF payment_date.raised
    THEN [found |-> FALSE, raised |-> TRUE, why |-> "date_error", record |-> NoRecord]
    ELSE [found |-> TRUE, raised |-> FALSE, why |-> "ok",
          record |-> [date |-> payment_date.value,
                      amount |-> [hi |-> amount.hi, cents |-> amount.cents],
                      source |-> source,
                      client_name |-> extract_client_name(combined_text, source),
                      email_subject |-> subject,
                      processed_at |-> now]]

\* --------------------------------------------------- models/payment.py
\* PaymentRecord.to_dict, as the row the spreadsheet holds: a numeric cell
\* is an IEEE double
to_dict(record) ==
    [Date |-> strftime_date(record.date),
     Amount |-> float(record.amount),
     Source |-> record.source,
     ClientName |-> record.client_name,
     EmailSubject |-> record.email_subject,
     ProcessedDate |-> strftime_datetime(record.processed_at)]

\* ------------------------------------------------------------- state
VARIABLES
    store,              \* the rows of the spreadsheet, below the header row
    processed_emails,   \* IncomeTracker.processed_emails
    clock,              \* wall clock: the calendar day of datetime.now()
    pc,                 \* "idle", "search" (about to search a sender), "loop"
    senderIdx,          \* index into get_supported_senders
    email_ids,          \* the message numbers still to visit for this sender
    records_processed,  \* the local of process_new_emails; its return value
    restarts,           \* number of process restarts so far
    faults,             \* number of mail and store failures so far
    origin,             \* history, per row of store: the message and Decimal it came from
    cycleDone,          \* history: process_new_emails has returned
    cycleAppended,      \* history: rows appended during this cycle
    searched,           \* history: the senders searched in this cycle, in order
    senderLog,          \* history, per sender of this cycle: status and listing
    visited,            \* history: <<sender, id>> the loop body ran for
    hist,               \* history, per message of this process
    lastSave,           \* history: the save_record call of the step just taken
    cls,                \* the last identify_payment_source call: input and result
    mon,                \* run_continuous_monitoring: position, sleeps, interrupts
    imap,               \* one EmailClient.connection() scope and its IMAP4 session
    cli,                \* one run of the command line: environment, position, exit
    ext,                \* one drawn message taken through the body of the for loop
    stats,              \* one get_summary_stats call: the read and the result
    savers              \* two processes inside save_record on the same file

vars == << store, processed_emails, clock, pc, senderIdx, email_ids,
           records_processed, restarts, faults, origin, cycleDone,
           cycleAppended, searched, senderLog, visited, hist, lastSave, cls,
           mon, imap, cli, ext, stats, savers >>

TrackerVars == << store, processed_emails, clock, pc, senderIdx, email_ids,
                  records_processed, restarts, faults, origin, cycleDone,
                  cycleAppended, searched, senderLog, visited, hist, lastSave >>

AuxVars == << mon, imap, cli, ext, stats, savers >>

NumSenders == Len(get_supported_senders)

\* history counters tell 0, 1 and "more than once" (2) apart
Bump(n) == IF n < 2 THEN n + 1 ELSE n

\* due: 1 when the last fetch_email call for the message, in this cycle,
\* gave no message; 2 when that was in an earlier cycle; 0 otherwise
NoHist == [id \in EmailIds |-> [fetches |-> 0, saves |-> 0, appends |-> 0,
                                outcome |-> "none", due |-> 0]]
NoLog == [i \in 1..NumSenders |-> [status |-> "pending", listed |-> <<>>]]
NoCall == [called |-> FALSE, calls |-> 0, from_email |-> <<>>, subject |-> <<>>,
           source |-> "None", first |-> "None"]
NoSave == [called |-> FALSE, reads_ok |-> FALSE, exists_ok |-> FALSE,
           load_ok |-> FALSE, write_ok |-> FALSE, key_in_store |-> FALSE,
           outcome |-> "none"]

InitTracker ==
    /\ store = <<>>
    /\ processed_emails = {}
    /\ clock = 0
    /\ pc = "idle"
    /\ senderIdx = 1
    /\ email_ids = <<>>
    /\ records_processed = 0
    /\ restarts = 0
    /\ faults = 0
    /\ origin = <<>>
    /\ cycleDone = FALSE
    /\ cycleAppended = 0
    /\ searched = <<>>
    /\ senderLog = NoLog
    /\ visited = {}
    /\ hist = NoHist
    /\ lastSave = NoSave

\* the variables of the other specifications, at rest
NoMon == [pc |-> "off", check_interval |-> 300, cycles |-> 0, result |-> "none",
          escaped |-> FALSE, sleeping |-> 0, slept |-> 0, interrupts |-> 0,
          caught_by |-> "none"]
NoImap == [pc |-> "none", caller |-> "none", state |-> "none", opened |-> FALSE,
           closed |-> FALSE, logged_out |-> FALSE, raised |-> FALSE,
           scopes |-> 0, leaked |-> 0]
NoCli == [pc |-> "none", environ |-> <<>>, dotenv |-> <<>>, os_environ |-> <<>>,
          loaded |-> FALSE, read |-> FALSE, loaded_at_read |-> FALSE,
          EMAIL_ADDRESS |-> "None", EMAIL_PASSWORD |-> "None",
          EXCEL_FILE_PATH |-> "None", CHECK_INTERVAL |-> 0,
          command |-> "none", validated |-> FALSE, missing_vars |-> <<>>,
          output |-> "none", exit_status |-> "none", tracker_built |-> FALSE,
          connection_opened |-> FALSE, cycle_ran |-> FALSE]
NoExt == [calls |-> 0, msg |-> <<>>, now |-> [day |-> 0, time |-> ""],
          result |-> [found |-> FALSE, raised |-> FALSE, why |-> "none",
                      record |-> NoRecord],
          outcome |-> "none", marked |-> FALSE]
NoStats == [called |-> FALSE, read_ok |-> FALSE, result |-> <<>>]
NoSavers == [proc |-> <<>>, raced |-> FALSE, overlapped |-> {}]

Init ==
    /\ InitTracker
    /\ cls = NoCall
    /\ mon = NoMon
    /\ imap = NoImap
    /\ cli = NoCli
    /\ ext = NoExt
    /\ stats = NoStats
    /\ savers = NoSavers

\* ------------------------------------------ storage/excel_handler.py
\* _load_dataframe: a failed read yields an empty frame
load_dataframe(read_ok) == IF read_ok THEN store ELSE <<>>

record_exists_never(record, read_ok) == FALSE

\* record_exists: a row with the same date, amount, source and client name
record_exists(record, read_ok) ==
    \E i \in DOMAIN load_dataframe(read_ok) :
        /\ load_dataframe(read_ok)[i].Date = strftime_date(record.date)
        /\ load_dataframe(read_ok)[i].Amount = float(record.amount)
        /\ load_dataframe(read_ok)[i].Source = record.source
        /\ load_dataframe(read_ok)[i].ClientName = record.client_name

save_record_fail_closed(record, exists_ok, load_ok, write_ok) ==
    IF ~exists_ok \/ ~write_ok THEN [outcome |-> "storage_error", store |-> store]
    ELSE IF record_exists(record, exists_ok) THEN [outcome |-> "dup", store |-> store]
    ELSE [outcome |-> "written",
          store |-> Append(load_dataframe(load_ok), to_dict(record))]

\* save_record: [outcome, store]; "storage_error" is a raised StorageError
save_record(record, exists_ok, load_ok, write_ok) ==
    IF record_exists(record, exists_ok) THEN [outcome |-> "dup", store |-> store]
    ELSE IF ~write_ok THEN [outcome |-> "storage_error", store |-> store]
    ELSE [outcome |-> "written",
          store |-> Append(load_dataframe(load_ok), to_dict(record))]

\* ---------------------------------------------------- core/tracker.py
NextSender_abort(status, log) ==
    /\ senderLog' = [log EXCEPT ![senderIdx].status = status]
    /\ email_ids' = <<>>
    /\ IF senderIdx = NumSenders \/ status = "conn_error"
       THEN pc' = "idle" /\ cycleDone' = TRUE /\ senderIdx' = senderIdx
       ELSE pc' = "search" /\ cycleDone' = cycleDone /\ senderIdx' = senderIdx + 1

\* the except clauses around one sender and the step of the outer for loop:
\* leave the sender at senderIdx with the given status ("complete" when
\* the inner for loop is exhausted)
NextSender(status, log) ==
    /\ senderLog' = [log EXCEPT ![senderIdx].status = status]
    /\ email_ids' = <<>>
    /\ IF senderIdx = NumSenders
       THEN pc' = "idle" /\ cycleDone' = TRUE /\ senderIdx' = senderIdx
       ELSE pc' = "search" /\ cycleDone' = cycleDone /\ senderIdx' = senderIdx + 1

\* process_new_emails is entered
StartCheckStep ==
    /\ pc = "idle"
    /\ pc' = "search"
    /\ senderIdx' = 1
    /\ email_ids' = <<>>
    /\ records_processed' = 0
    /\ cycleDone' = FALSE
    /\ cycleAppended' = 0
    /\ searched' = <<>>
    /\ senderLog' = NoLog
    /\ visited' = {}
    /\ lastSave' = NoSave
    /\ hist' = [id \in EmailIds |-> [hist[id] EXCEPT !.due = IF @ = 1 THEN 2 ELSE @]]
    /\ UNCHANGED << store, processed_emails, clock, restarts, faults, origin >>

\* a single check, outside continuous monitoring
StartCheck ==
    /\ StartCheckStep
    /\ cls' = cls
    /\ UNCHANGED AuxVars

\* search_emails returns the listing (or [] when the search status is not OK)
SearchEmails ==
    /\ pc = "search"
    /\ \E status_ok \in BOOLEAN :
        LET ids == IF status_ok THEN search_emails(get_supported_senders[senderIdx])
                   ELSE <<>>
            log == [senderLog EXCEPT ![senderIdx].listed = ids] IN
        /\ status_ok \/ faults < MaxFaults
        /\ faults' = IF status_ok THEN faults ELSE faults + 1
        /\ IF ids = <<>> THEN NextSender("complete", log)
           ELSE /\ email_ids' = ids
                /\ senderLog' = log
                /\ pc' = "loop"
                /\ UNCHANGED << senderIdx, cycleDone >>
    /\ searched' = Append(searched, senderIdx)
    /\ lastSave' = NoSave
    /\ cls' = cls
    /\ UNCHANGED AuxVars
    /\ UNCHANGED << store, processed_emails, clock, records_processed,
                    restarts, origin, cycleAppended, visited, hist >>

\* search_emails raises EmailConnectionError: logged, next sender
SearchConnectionError ==
    /\ pc = "search"
    /\ faults < MaxFaults
    /\ faults' = faults + 1
    /\ searched' = Append(searched, senderIdx)
    /\ NextSender("conn_error", senderLog)
    /\ lastSave' = NoSave
    /\ cls' = cls
    /\ UNCHANGED AuxVars
    /\ UNCHANGED << store, processed_emails, clock, records_processed, restarts,
                    origin, cycleAppended, visited, hist >>

\* if email_id_str in self.processed_emails
AlreadyProcessed_never(id) == FALSE

AlreadyProcessed(id) == id \in processed_emails

\* self.processed_emails.add(email_id_str), after any outcome of the pipeline
MarkProcessed_on_success(id, outcome) ==
    IF outcome = "storage_error" THEN processed_emails ELSE processed_emails \cup {id}

MarkProcessed(id, outcome) == processed_emails \cup {id}

InLoop == pc = "loop" /\ email_ids # <<>>
CurId == Head(email_ids)
Visit == visited' = visited \cup {<<senderIdx, CurId>>}
Continue ==
    IF Tail(email_ids) = <<>> THEN NextSender("complete", senderLog)
    ELSE /\ email_ids' = Tail(email_ids)
         /\ UNCHANGED << pc, senderIdx, cycleDone, senderLog >>

\* if email_id_str in self.processed_emails: continue
SkipProcessed ==
    /\ InLoop
    /\ AlreadyProcessed(CurId)
    /\ Visit
    /\ Continue
    /\ lastSave' = NoSave
    /\ cls' = cls
    /\ UNCHANGED AuxVars
    /\ UNCHANGED << store, processed_emails, clock, records_processed, restarts,
                    faults, origin, cycleAppended, searched, hist >>

\* fetch_email returns None (fetch status not OK, or an exception of
\* mail.fetch caught in fetch_email): continue, the message is not marked
FetchNoneStep ==
    /\ InLoop
    /\ ~AlreadyProcessed(CurId)
    /\ hist' = [hist EXCEPT ![CurId].due = 1]
    /\ Visit
    /\ Continue
    /\ lastSave' = NoSave
    /\ UNCHANGED << store, processed_emails, clock, records_processed, restarts,
                    origin, cycleAppended, searched >>

\* one of the failures the run is allowed
FetchNone ==
    /\ FetchNoneStep
    /\ faults < MaxFaults
    /\ faults' = faults + 1
    /\ cls' = cls
    /\ UNCHANGED AuxVars

\* fetch_email raises EmailConnectionError: caught around the sender
FetchConnectionError ==
    /\ InLoop
    /\ ~AlreadyProcessed(CurId)
    /\ faults < MaxFaults
    /\ faults' = faults + 1
    /\ hist' = [hist EXCEPT ![CurId].due = 1]
    /\ Visit
    /\ NextSender("conn_error", senderLog)
    /\ lastSave' = NoSave
    /\ cls' = cls
    /\ UNCHANGED AuxVars
    /\ UNCHANGED << store, processed_emails, clock, records_processed, restarts,
                    origin, cycleAppended, searched >>

Fetched(id) == [hist EXCEPT ![id].fetches = Bump(@), ![id].due = 0]

Candidate(id) ==
    process_email(Mailbox[id], extract_body(Mailbox[id]).text,
                  decode_subject(Mailbox[id]).text, [day |-> clock, time |-> "now"])

ContentRaises(id) ==
    \/ decode_subject(Mailbox[id]).raised
    \/ extract_body(Mailbox[id]).raised
    \/ Candidate(id).raised

\* decode_subject, extract_body or process_email raises: caught by except
\* Exception around the sender
ContentError ==
    /\ InLoop
    /\ ~AlreadyProcessed(CurId)
    /\ ContentRaises(CurId)
    /\ hist' = Fetched(CurId)
    /\ Visit
    /\ NextSender("exception", senderLog)
    /\ lastSave' = NoSave
    /\ cls' = cls
    /\ UNCHANGED AuxVars
    /\ UNCHANGED << store, processed_emails, clock, records_processed, restarts,
                    faults, origin, cycleAppended, searched >>

\* process_email returns None: the message is marked as processed
NoPayment ==
    /\ InLoop
    /\ ~AlreadyProcessed(CurId)
    /\ ~ContentRaises(CurId)
    /\ ~Candidate(CurId).found
    /\ hist' = [Fetched(CurId) EXCEPT ![CurId].outcome = Candidate(CurId).why]
    /\ processed_emails' = MarkProcessed(CurId, Candidate(CurId).why)
    /\ Visit
    /\ Continue
    /\ lastSave' = NoSave
    /\ cls' = cls
    /\ UNCHANGED AuxVars
    /\ UNCHANGED << store, clock, records_processed, restarts, faults, origin,
                    cycleAppended, searched >>

KeyInStore(record) ==
    \E i \in DOMAIN store :
        /\ store[i].Date = strftime_date(record.date)
        /\ store[i].Source = record.source
        /\ store[i].ClientName = record.client_name
        /\ origin[i].amount = record.amount

\* process_email returns a record: save_record, count, mark as processed
SavePaymentStep ==
    /\ InLoop
    /\ ~AlreadyProcessed(CurId)
    /\ ~ContentRaises(CurId)
    /\ Candidate(CurId).found
    /\ \E exists_ok, load_ok, write_ok \in BOOLEAN :
        LET rec == Candidate(CurId).record
            res == save_record(rec, exists_ok, load_ok, write_ok)
            used == (IF exists_ok THEN 0 ELSE 1) + (IF load_ok THEN 0 ELSE 1)
                    + (IF write_ok THEN 0 ELSE 1) IN
        /\ faults + used <= MaxFaults
        /\ res.outcome = "dup" => load_ok /\ write_ok
        /\ res.outcome = "storage_error" => load_ok
        /\ faults' = faults + used
        /\ store' = res.store
        /\ origin' = IF res.outcome = "written"
                     THEN Append(IF load_ok THEN origin ELSE <<>>,
                                 [id |-> CurId, amount |-> rec.amount])
                     ELSE origin
        /\ records_processed' = IF res.outcome = "storage_error"
                                THEN records_processed ELSE records_processed + 1
        /\ cycleAppended' = IF res.outcome = "written"
                            THEN cycleAppended + 1 ELSE cycleAppended
        /\ hist' = [Fetched(CurId) EXCEPT
                      ![CurId].outcome = res.outcome,
                      ![CurId].saves = Bump(@),
                      ![CurId].appends = IF res.outcome = "written" THEN Bump(@) ELSE @]
        /\ lastSave' = [called |-> TRUE,
                        reads_ok |-> exists_ok /\ load_ok,
                        exists_ok |-> exists_ok,
                        load_ok |-> load_ok,
                        write_ok |-> write_ok,
                        key_in_store |-> KeyInStore(rec),
                        outcome |-> res.outcome]
        /\ processed_emails' = MarkProcessed(CurId, res.outcome)
    /\ Visit
    /\ Continue
    /\ UNCHANGED << clock, restarts, searched >>

SavePayment ==
    /\ SavePaymentStep
    /\ cls' = cls
    /\ UNCHANGED AuxVars

\* the process is stopped between two cycles and started again: the seen
\* set is lost
Restart ==
    /\ pc = "idle"
    /\ restarts < MaxRestarts
    /\ restarts' = restarts + 1
    /\ processed_emails' = {}
    /\ pc' = "idle"
    /\ senderIdx' = 1
    /\ email_ids' = <<>>
    /\ records_processed' = 0
    /\ cycleDone' = FALSE
    /\ cycleAppended' = 0
    /\ searched' = <<>>
    /\ senderLog' = NoLog
    /\ visited' = {}
    /\ hist' = NoHist
    /\ lastSave' = NoSave
    /\ cls' = cls
    /\ UNCHANGED AuxVars
    /\ UNCHANGED << store, clock, faults, origin >>

\* wall-clock time passes between two cycles (a tick is a day)
Tick ==
    /\ pc = "idle"
    /\ clock < MaxClock
    /\ clock' = clock + 1
    /\ lastSave' = NoSave
    /\ cls' = cls
    /\ UNCHANGED AuxVars
    /\ UNCHANGED << store, processed_emails, pc, senderIdx, email_ids,
                    records_processed, restarts, faults, origin, cycleDone,
                    cycleAppended, searched, senderLog, visited, hist >>

Next ==
    \/ StartCheck
    \/ SearchEmails
    \/ SearchConnectionError
    \/ SkipProcessed
    \/ FetchNone
    \/ FetchConnectionError
    \/ ContentError
    \/ NoPayment
    \/ SavePayment
    \/ Restart
    \/ Tick

Spec == Init /\ [][Next]_vars

\* ------------------------------------- cycles with an unreliable fetch
\* one process and a clock that stands still; fetch_email may give no
\* message at any call as long as at most MaxPending messages wait for a
\* new fetch; nothing else fails (the failures the run is allowed are
\* used up)
InitRefetch ==
    /\ store = <<>>
    /\ processed_emails = {}
    /\ clock = 0
    /\ pc = "idle"
    /\ senderIdx = 1
    /\ email_ids = <<>>
    /\ records_processed = 0
    /\ restarts = 0
    /\ faults = MaxFaults
    /\ origin = <<>>
    /\ cycleDone = FALSE
    /\ cycleAppended = 0
    /\ searched = <<>>
    /\ senderLog = NoLog
    /\ visited = {}
    /\ hist = NoHist
    /\ lastSave = NoSave
    /\ cls = NoCall
    /\ mon = NoMon
    /\ imap = NoImap
    /\ cli = NoCli
    /\ ext = NoExt
    /\ stats = NoStats
    /\ savers = NoSavers

Pending == {id \in EmailIds : hist[id].due # 0}

FetchUnavailable ==
    /\ FetchNoneStep
    /\ Cardinality(Pending \cup {CurId}) <= MaxPending
    /\ faults' = faults
    /\ cls' = cls
    /\ UNCHANGED AuxVars

NextRefetch ==
    \/ StartCheck
    \/ SearchEmails
    \/ SkipProcessed
    \/ FetchUnavailable
    \/ ContentError
    \/ NoPayment
    \/ SavePayment

SpecRefetch == InitRefetch /\ [][NextRefetch]_vars

\* ------------------------------------------------ the classifier alone
\* identify_payment_source applied to every From header and subject of at
\* most MaxFromLen and MaxSubjectLen tokens
FromTokens ==
    { "alert@zellepay.com", "noreply@zellepay.com", "venmo@venmo.com",
      "notifications@venmo.com", "cash@square.com", "support@cash.app",
      "service@paypal.com", "paypal@e.paypal.com",
      "ALERT@ZELLEPAY.COM", "Service@PayPal.com", "someone@example.com" }

SubjectTokens ==
    { "sent you", "received", "payment", "paid you", "charged you",
      "Payment", "Paid You", "receipt" }

TextsOver(tokens, n) == UNION {[1..k -> tokens] : k \in 0..n}

InitClassify ==
    /\ InitTracker
    /\ \E from_email \in TextsOver(FromTokens, MaxFromLen),
          subject \in TextsOver(SubjectTokens, MaxSubjectLen) :
        cls = [NoCall EXCEPT !.from_email = from_email, !.subject = subject]
    /\ mon = NoMon
    /\ imap = NoImap
    /\ cli = NoCli
    /\ ext = NoExt
    /\ stats = NoStats
    /\ savers = NoSavers

\* one call on the drawn input; first keeps the result of the first call
IdentifyPaymentSource ==
    /\ cls.calls < MaxCalls
    /\ LET source == identify_payment_source(cls.from_email, cls.subject) IN
       cls' = [cls EXCEPT !.called = TRUE,
                          !.calls = @ + 1,
                          !.source = source,
                          !.first = IF cls.calls = 0 THEN source ELSE @]
    /\ UNCHANGED << store, processed_emails, clock, pc, senderIdx, email_ids,
                    records_processed, restarts, faults, origin, cycleDone,
                    cycleAppended, searched, senderLog, visited, hist, lastSave >>
    /\ UNCHANGED AuxVars

NextClassify == IdentifyPaymentSource

SpecClassify == InitClassify /\ [][NextClassify]_vars

\* ------------------------------- core/tracker.py: continuous monitoring
\* the CHECK_INTERVAL values a tracker is built with (none is rejected)
CheckIntervals == {300, -5}

\* time.sleep(seconds)
time_sleep(seconds) == IF seconds < 0 THEN "ValueError" ELSE "ok"

loop_except_reraise(exc) == IF exc = "KeyboardInterrupt" THEN "returned" ELSE "raised"

\* the except clauses of the try in the while loop: break leaves the with
\* block normally; any other exception is logged and time.sleep(60) follows
loop_except(exc) == IF exc = "KeyboardInterrupt" THEN "returned" ELSE "backoff"

\* the except clauses of monitoring_session, for an exception that leaves
\* the while loop: KeyboardInterrupt is logged and suppressed
monitoring_session(exc) == IF exc = "KeyboardInterrupt" THEN "returned" ELSE "raised"

InitMonitor ==
    /\ InitTracker
    /\ cls = NoCall
    /\ \E check_interval \in CheckIntervals :
        mon = [NoMon EXCEPT !.pc = "top", !.check_interval = check_interval]
    /\ imap = NoImap
    /\ cli = NoCli
    /\ ext = NoExt
    /\ stats = NoStats
    /\ savers = NoSavers

MonitorOnly == cls' = cls /\ UNCHANGED << imap, cli, ext, stats, savers >>

\* the cycle is left before process_new_emails returned
AbandonCheck ==
    /\ pc' = "idle"
    /\ email_ids' = <<>>
    /\ lastSave' = NoSave
    /\ UNCHANGED << store, processed_emails, clock, senderIdx, records_processed,
                    restarts, origin, cycleDone, cycleAppended, searched,
                    senderLog, visited, hist >>

AfterCheck_no_sleep(result) ==
    mon' = [mon EXCEPT !.pc = "top", !.result = result, !.escaped = FALSE,
                       !.sleeping = 0, !.slept = 0]

\* run_single_check returned a result: the log lines, then
\* time.sleep(self.check_interval), whose ValueError the loop catches;
\* slept counts the sleeps that have returned since
AfterCheck(result) ==
    IF time_sleep(mon.check_interval) = "ok"
    THEN mon' = [mon EXCEPT !.pc = "sleep", !.result = result, !.escaped = FALSE,
                            !.sleeping = mon.check_interval, !.slept = 0]
    ELSE mon' = [mon EXCEPT !.pc = loop_except(time_sleep(mon.check_interval)),
                            !.result = result, !.escaped = TRUE, !.sleeping = 60,
                            !.slept = 0]

\* while True: run_single_check calls process_new_emails
MonitorStartCheck ==
    /\ mon.pc = "top"
    /\ StartCheckStep
    /\ mon' = [mon EXCEPT !.pc = "cycle", !.cycles = Bump(@)]
    /\ MonitorOnly

\* process_new_emails returned: the result has no "error" key
MonitorCheckReturns ==
    /\ mon.pc = "cycle"
    /\ pc = "idle"
    /\ cycleDone
    /\ AfterCheck("ok")
    /\ MonitorOnly
    /\ UNCHANGED TrackerVars

\* an exception raised in process_new_emails before the try around the
\* first sender: run_single_check logs it and returns a result with "error"
MonitorCheckError ==
    /\ mon.pc = "cycle"
    /\ pc = "search"
    /\ senderIdx = 1
    /\ faults < MaxFaults
    /\ faults' = faults + 1
    /\ AbandonCheck
    /\ AfterCheck("error")
    /\ MonitorOnly

\* time.sleep returns (the interval or the backoff); the wall clock may
\* have reached the next day
MonitorWake ==
    /\ mon.pc \in {"sleep", "backoff"}
    /\ mon' = [mon EXCEPT !.pc = "top", !.slept = Bump(@)]
    /\ \E days \in {0, 1} :
        /\ clock + days <= MaxClock
        /\ clock' = clock + days
    /\ MonitorOnly
    /\ UNCHANGED << store, processed_emails, pc, senderIdx, email_ids,
                    records_processed, restarts, faults, origin, cycleDone,
                    cycleAppended, searched, senderLog, visited, hist, lastSave >>

\* KeyboardInterrupt raised inside run_single_check: no except Exception
\* clause on the way catches it, the loop's except KeyboardInterrupt does
InterruptInCheck ==
    /\ mon.pc = "cycle"
    /\ pc # "idle"
    /\ AbandonCheck
    /\ faults' = faults
    /\ mon' = [mon EXCEPT !.pc = loop_except("KeyboardInterrupt"),
                          !.interrupts = Bump(@), !.caught_by = "loop"]
    /\ MonitorOnly

\* KeyboardInterrupt raised inside the try of the column-width loop of
\* _save_dataframe: the bare except swallows it and the save goes on
InterruptInSave ==
    /\ mon.pc = "cycle"
    /\ SavePaymentStep
    /\ lastSave'.outcome = "written"
    /\ mon' = [mon EXCEPT !.interrupts = Bump(@), !.caught_by = "bare_except"]
    /\ MonitorOnly

\* KeyboardInterrupt raised in time.sleep(self.check_interval), inside the try
InterruptInSleep ==
    /\ mon.pc = "sleep"
    /\ mon' = [mon EXCEPT !.pc = loop_except("KeyboardInterrupt"),
                          !.interrupts = Bump(@), !.caught_by = "loop"]
    /\ MonitorOnly
    /\ UNCHANGED TrackerVars

\* KeyboardInterrupt raised in time.sleep(60), inside the except clause: it
\* leaves the while loop and reaches monitoring_session
InterruptInBackoff ==
    /\ mon.pc = "backoff"
    /\ mon' = [mon EXCEPT !.pc = monitoring_session("KeyboardInterrupt"),
                          !.interrupts = Bump(@), !.caught_by = "session"]
    /\ MonitorOnly
    /\ UNCHANGED TrackerVars

NextMonitor ==
    \/ MonitorStartCheck
    \/ SearchEmails
    \/ SearchConnectionError
    \/ SkipProcessed
    \/ FetchNone
    \/ FetchConnectionError
    \/ ContentError
    \/ NoPayment
    \/ SavePayment
    \/ MonitorCheckReturns
    \/ MonitorCheckError
    \/ MonitorWake
    \/ InterruptInCheck
    \/ InterruptInSave
    \/ InterruptInSleep
    \/ InterruptInBackoff

SpecMonitor == InitMonitor /\ [][NextMonitor]_vars

\* ------------------------------ core/email_client.py: connection()
\* the functions that open a connection() scope
Callers == {"search_emails", "fetch_email", "validate_configuration"}

\* imaplib: the session states in which a command is legal
CommandLegal(command, state) ==
    CASE command = "SELECT" -> state \in {"AUTH", "SELECTED"}
      [] command = "SEARCH" -> state = "SELECTED"
      [] command = "FETCH" -> state = "SELECTED"
      [] command = "CLOSE" -> state = "SELECTED"
      [] command = "LOGOUT" -> state \in {"NONAUTH", "AUTH", "SELECTED", "LOGOUT"}

InitConnection ==
    /\ InitTracker
    /\ cls = NoCall
    /\ mon = NoMon
    /\ imap = NoImap
    /\ cli = NoCli
    /\ ext = NoExt
    /\ stats = NoStats
    /\ savers = NoSavers

ConnectionOnly ==
    /\ cls' = cls
    /\ UNCHANGED << mon, cli, ext, stats, savers >>
    /\ UNCHANGED TrackerVars

\* with self.connection(): mail = None
EnterScope ==
    /\ imap.pc \in {"none", "left"}
    /\ imap.scopes < MaxScopes
    /\ \E caller \in Callers :
        imap' = [NoImap EXCEPT !.pc = "open", !.caller = caller,
                               !.scopes = imap.scopes + 1, !.leaked = imap.leaked]
    /\ ConnectionOnly

\* mail = imaplib.IMAP4_SSL(self.server); a failure leaves mail = None
OpenSession ==
    /\ imap.pc = "open"
    /\ \E ok \in BOOLEAN :
        imap' = IF ok THEN [imap EXCEPT !.pc = "login", !.state = "NONAUTH",
                                       !.opened = TRUE]
                ELSE [imap EXCEPT !.pc = "finally", !.raised = TRUE]
    /\ ConnectionOnly

\* mail.login(...)
Login ==
    /\ imap.pc = "login"
    /\ \E ok \in BOOLEAN :
        imap' = IF ok THEN [imap EXCEPT !.pc = "body", !.state = "AUTH"]
                ELSE [imap EXCEPT !.pc = "finally", !.raised = TRUE]
    /\ ConnectionOnly

\* yield mail: the body of the with statement.  search_emails and
\* fetch_email select the inbox (a status other than OK leaves the session
\* in AUTH) and send one command; fetch_email catches what its command
\* raises; validate_configuration sends nothing
Body ==
    /\ imap.pc = "body"
    /\ \E select_ok, command_ok \in BOOLEAN :
        LET state == IF imap.caller = "validate_configuration" THEN imap.state
                     ELSE IF select_ok /\ CommandLegal("SELECT", imap.state)
                          THEN "SELECTED" ELSE "AUTH"
            command == IF imap.caller = "search_emails" THEN "SEARCH" ELSE "FETCH"
            raises == /\ imap.caller = "search_emails"
                      /\ ~(command_ok /\ CommandLegal(command, state)) IN
        imap' = [imap EXCEPT !.pc = "finally", !.state = state, !.raised = raises]
    /\ ConnectionOnly

\* finally: if mail: try: mail.close(); mail.logout() except Exception: warn
Finally ==
    /\ imap.pc = "finally"
    /\ \E close_ok \in BOOLEAN :
        LET closed == imap.opened /\ close_ok /\ CommandLegal("CLOSE", imap.state)
            logged_out == closed /\ CommandLegal("LOGOUT", "AUTH") IN
        imap' = [imap EXCEPT !.pc = "left",
                             !.closed = closed,
                             !.logged_out = logged_out,
                             !.state = IF logged_out THEN "LOGOUT" ELSE @,
                             !.leaked = IF imap.opened /\ ~logged_out THEN @ + 1 ELSE @]
    /\ ConnectionOnly

NextConnection ==
    \/ EnterScope
    \/ OpenSession
    \/ Login
    \/ Body
    \/ Finally

SpecConnection == InitConnection /\ [][NextConnection]_vars

\* ------------------------------------------------ config.py and cli.py
Settings == {"EMAIL_ADDRESS", "EMAIL_PASSWORD", "EXCEL_FILE_PATH", "CHECK_INTERVAL"}

\* what os.environ or the .env file may hold for a setting ("unset": no entry)
SettingValues(setting) ==
    CASE setting = "EMAIL_ADDRESS" -> {"unset", "", "me@gmail.com"}
      [] setting = "EMAIL_PASSWORD" -> {"unset", "app password"}
      [] setting = "EXCEL_FILE_PATH" -> {"unset", "income.xlsx"}
      [] setting = "CHECK_INTERVAL" -> {"unset", "60", "0", "-5", "five"}

Environments ==
    {e \in [Settings -> UNION {SettingValues(setting) : setting \in Settings}] :
        \A setting \in Settings : e[setting] \in SettingValues(setting)}

Commands == {"monitor", "check", "stats", "validate"}

\* os.getenv(name, default); None is "None"
getenv(environ, name, default) ==
    IF environ[name] = "unset" THEN default ELSE environ[name]

\* int(str): ValueError is [ok |-> FALSE]
int(str) ==
    CASE str = "300" -> [ok |-> TRUE, value |-> 300]
      [] str = "60" -> [ok |-> TRUE, value |-> 60]
      [] str = "0" -> [ok |-> TRUE, value |-> 0]
      [] str = "-5" -> [ok |-> TRUE, value |-> -5]
      [] OTHER -> [ok |-> FALSE, value |-> 0]

\* load_dotenv(): the entries of the .env file enter os.environ; an
\* entry os.environ already has is kept
load_dotenv(environ, dotenv) ==
    [setting \in Settings |->
        IF environ[setting] # "unset" THEN environ[setting] ELSE dotenv[setting]]

\* not value
Falsy(value) == value \in {"None", ""}

InitCli ==
    /\ InitTracker
    /\ cls = NoCall
    /\ mon = NoMon
    /\ imap = NoImap
    /\ \E environ \in Environments, dotenv \in Environments :
        cli = [NoCli EXCEPT !.pc = "import", !.environ = environ, !.dotenv = dotenv,
                            !.os_environ = environ]
    /\ ext = NoExt
    /\ stats = NoStats
    /\ savers = NoSavers

CliOnly ==
    /\ cls' = cls
    /\ UNCHANGED << mon, imap, ext, stats, savers >>
    /\ UNCHANGED TrackerVars

\* from .config import ...: the module constants are evaluated; a
\* CHECK_INTERVAL that is no integer raises ValueError out of the import
ImportConfig ==
    /\ cli.pc = "import"
    /\ LET check_interval == int(getenv(cli.os_environ, "CHECK_INTERVAL", "300")) IN
       IF ~check_interval.ok
       THEN cli' = [cli EXCEPT !.pc = "exit", !.output = "traceback",
                               !.exit_status = "1"]
       ELSE cli' = [cli EXCEPT
                      !.pc = "main",
                      !.read = TRUE,
                      !.loaded_at_read = cli.loaded,
                      !.EMAIL_ADDRESS = getenv(cli.os_environ, "EMAIL_ADDRESS", "None"),
                      !.EMAIL_PASSWORD = getenv(cli.os_environ, "EMAIL_PASSWORD", "None"),
                      !.EXCEL_FILE_PATH = getenv(cli.os_environ, "EXCEL_FILE_PATH",
                                                 "tutoring_income.xlsx"),
                      !.CHECK_INTERVAL = check_interval.value]
    /\ CliOnly

\* main(): load_dotenv()
LoadDotenv ==
    /\ cli.pc = "main"
    /\ cli' = [cli EXCEPT !.pc = "args", !.loaded = TRUE,
                          !.os_environ = load_dotenv(cli.os_environ, cli.dotenv)]
    /\ CliOnly

\* parser.parse_args(): args.func is one of the four commands
ParseArgs ==
    /\ cli.pc = "args"
    /\ \E command \in Commands :
        cli' = [cli EXCEPT !.pc = "validate", !.command = command]
    /\ CliOnly

\* validate_environment(), the first statement of every command
validate_environment ==
    /\ cli.pc = "validate"
    /\ LET missing_vars ==
               (IF Falsy(cli.EMAIL_ADDRESS) THEN <<"EMAIL_ADDRESS">> ELSE <<>>)
            \o (IF Falsy(cli.EMAIL_PASSWORD) THEN <<"EMAIL_PASSWORD">> ELSE <<>>) IN
       IF missing_vars # <<>>
       THEN cli' = [cli EXCEPT !.pc = "exit", !.validated = TRUE,
                               !.missing_vars = missing_vars,
                               !.output = "missing_vars", !.exit_status = "1"]
       ELSE cli' = [cli EXCEPT !.pc = "create", !.validated = TRUE]
    /\ CliOnly

\* create_tracker(config): IncomeTracker(...), then validate_configuration,
\* which opens a mail connection; a failed validation exits with status 1
create_tracker ==
    /\ cli.pc = "create"
    /\ \E valid \in BOOLEAN :
        cli' = IF valid
               THEN [cli EXCEPT !.pc = "run", !.tracker_built = TRUE,
                                !.connection_opened = TRUE]
               ELSE [cli EXCEPT !.pc = "exit", !.tracker_built = TRUE,
                                !.connection_opened = TRUE,
                                !.output = "validation_failed", !.exit_status = "1"]
    /\ CliOnly

\* the rest of the command: monitor and check run check cycles
RunCommand ==
    /\ cli.pc = "run"
    /\ cli' = [cli EXCEPT !.pc = "exit",
                          !.cycle_ran = cli.command \in {"monitor", "check"},
                          !.output = "command", !.exit_status = "0"]
    /\ CliOnly

NextCli ==
    \/ ImportConfig
    \/ LoadDotenv
    \/ ParseArgs
    \/ validate_environment
    \/ create_tracker
    \/ RunCommand

SpecCli == InitCli /\ [][NextCli]_vars

\* ------------------------- one message through the body of the for loop
\* process_email and save_record applied to every message with one of the
\* From headers, subjects and Date headers below and a body of at most
\* MaxBodyLen tokens
ExtFroms == {<<"alert@zellepay.com">>, <<"venmo@venmo.com">>}

ExtSubjects == {<<"payment">>, <<"John Smith", "sent you">>, <<"receipt">>}

BodyTokens ==
    {"John Smith", "Jane Doe", "sent you", "paid you", "from", "$75.00", "$,"}

InitExtract ==
    /\ InitTracker
    /\ cls = NoCall
    /\ mon = NoMon
    /\ imap = NoImap
    /\ cli = NoCli
    /\ \E from_email \in ExtFroms, subject \in ExtSubjects,
          body \in TextsOver(BodyTokens, MaxBodyLen), date \in DateHeaders :
        ext = [NoExt EXCEPT
                 !.msg = [from |-> from_email,
                          subject |-> <<PlainChunk(subject)>>,
                          multipart |-> FALSE,
                          parts |-> <<Part("text/plain", TRUE, body)>>,
                          date |-> date],
                 !.now = [day |-> 1, time |-> "now"]]
    /\ stats = NoStats
    /\ savers = NoSavers

\* the body of the inner for loop for a fetched message: decode_subject,
\* extract_body, process_email, save_record for a record, then the message
\* is marked; an exception leaves the loop unmarked
ProcessFetched ==
    /\ ext.calls < MaxCalls
    /\ LET subject == decode_subject(ext.msg)
           body == extract_body(ext.msg)
           result == process_email(ext.msg, body.text, subject.text, ext.now)
           raised == subject.raised \/ body.raised \/ result.raised
           saved == save_record(result.record, TRUE, TRUE, TRUE) IN
       /\ ext' = [ext EXCEPT
                     !.calls = @ + 1,
                     !.result = result,
                     !.outcome = IF raised THEN "exception"
                                 ELSE IF ~result.found THEN result.why
                                 ELSE saved.outcome,
                     !.marked = ~raised]
       /\ store' = IF ~raised /\ result.found THEN saved.store ELSE store
    /\ cls' = cls
    /\ UNCHANGED << mon, imap, cli, stats, savers >>
    /\ UNCHANGED << processed_emails, clock, pc, senderIdx, email_ids,
                    records_processed, restarts, faults, origin, cycleDone,
                    cycleAppended, searched, senderLog, visited, hist, lastSave >>

NextExtract == ProcessFetched

SpecExtract == InitExtract /\ [][NextExtract]_vars

\* ------------------------- storage/excel_handler.py: get_summary_stats
\* a row as save_record wrote it; the amounts are below 2^47 dollars, their
\* doubles are the cent amounts and the sums below are exact
Row(cents, source, client_name) ==
    [Date |-> 0, Amount |-> <<0, cents>>, Source |-> source,
     ClientName |-> client_name, EmailSubject |-> <<"payment">>,
     ProcessedDate |-> <<0, "now">>]

SampleRows ==
    { Row(5000, "Zelle", "John Smith"), Row(7500, "Zelle", "John Smith"),
      Row(2000, "Venmo", "Jane Doe"), Row(5000, "Venmo", "Unknown") }

RECURSIVE SumAmounts(_)
SumAmounts(df) == IF df = <<>> THEN 0 ELSE Head(df).Amount[2] + SumAmounts(Tail(df))

\* the dictionary get_summary_stats returns; a mean is <<sum, count>>
get_summary_stats(read_ok) ==
    LET df == load_dataframe(read_ok) IN
    IF df = <<>> THEN [total_records |-> 0, total_amount |-> 0]
    ELSE [total_records |-> Len(df),
          total_amount |-> SumAmounts(df),
          average_amount |-> <<SumAmounts(df), Len(df)>>,
          max_amount |-> Max({df[i].Amount[2] : i \in DOMAIN df}),
          min_amount |-> Min({df[i].Amount[2] : i \in DOMAIN df}),
          unique_clients |-> Cardinality({df[i].ClientName : i \in DOMAIN df}),
          by_source |-> [source \in {df[i].Source : i \in DOMAIN df} |->
                            Cardinality({i \in DOMAIN df : df[i].Source = source})]]

InitStats ==
    /\ store \in TextsOver(SampleRows, MaxRows)
    /\ processed_emails = {}
    /\ clock = 0
    /\ pc = "idle"
    /\ senderIdx = 1
    /\ email_ids = <<>>
    /\ records_processed = 0
    /\ restarts = 0
    /\ faults = 0
    /\ origin = <<>>
    /\ cycleDone = FALSE
    /\ cycleAppended = 0
    /\ searched = <<>>
    /\ senderLog = NoLog
    /\ visited = {}
    /\ hist = NoHist
    /\ lastSave = NoSave
    /\ cls = NoCall
    /\ mon = NoMon
    /\ imap = NoImap
    /\ cli = NoCli
    /\ ext = NoExt
    /\ stats = NoStats
    /\ savers = NoSavers

\* get_summary_stats is called; the read of the file may fail
GetSummaryStats ==
    /\ \E read_ok \in BOOLEAN :
        stats' = [called |-> TRUE, read_ok |-> read_ok,
                  result |-> get_summary_stats(read_ok)]
    /\ cls' = cls
    /\ UNCHANGED << mon, imap, cli, ext, savers >>
    /\ UNCHANGED TrackerVars

NextStats == GetSummaryStats

SpecStats == InitStats /\ [][NextStats]_vars

\* ----------------- storage/excel_handler.py: two processes in save_record
\* two trackers poll the same mailbox and write the same file; each finds
\* the payments of messages 1 and 3 and saves each at most once
Procs == {1, 2}

Payments == {1, 3}

PaymentOf(id) ==
    process_email(Mailbox[id], extract_body(Mailbox[id]).text,
                  decode_subject(Mailbox[id]).text, [day |-> 0, time |-> "now"]).record

InitSavers ==
    /\ InitTracker
    /\ cls = NoCall
    /\ mon = NoMon
    /\ imap = NoImap
    /\ cli = NoCli
    /\ ext = NoExt
    /\ stats = NoStats
    /\ savers = [proc |-> [p \in Procs |-> [pc |-> "idle", id |-> 0, seen |-> {},
                                            df |-> <<>>]],
                 raced |-> FALSE,
                 overlapped |-> {}]

SaversOnly ==
    /\ cls' = cls
    /\ UNCHANGED << mon, imap, cli, ext, stats >>
    /\ UNCHANGED << processed_emails, clock, pc, senderIdx, email_ids,
                    records_processed, restarts, faults, origin, cycleDone,
                    cycleAppended, searched, senderLog, visited, hist, lastSave >>

\* process p calls save_record for a payment it has not handled yet
SaveRecordCalled(p) ==
    /\ savers.proc[p].pc = "idle"
    /\ \E id \in Payments \ savers.proc[p].seen :
        savers' = [savers EXCEPT !.proc[p].pc = "check", !.proc[p].id = id]
    /\ store' = store
    /\ SaversOnly

\* if self.record_exists(record): return
RecordExistsChecked(p) ==
    /\ savers.proc[p].pc = "check"
    /\ LET id == savers.proc[p].id
           exists == record_exists(PaymentOf(id), TRUE)
           between == {q \in Procs \ {p} : savers.proc[q].pc \in {"load", "write"}} IN
       savers' = IF exists
                 THEN [savers EXCEPT !.proc[p].pc = "idle",
                                     !.proc[p].seen = @ \cup {id}]
                 ELSE [savers EXCEPT
                         !.proc[p].pc = "load",
                         !.raced = @ \/ between # {},
                         !.overlapped =
                             IF \E q \in between : savers.proc[q].id = id
                             THEN @ \cup {id} ELSE @]
    /\ store' = store
    /\ SaversOnly

\* df = self._load_dataframe()
DataframeLoaded(p) ==
    /\ savers.proc[p].pc = "load"
    /\ savers' = [savers EXCEPT !.proc[p].pc = "write",
                                !.proc[p].df = load_dataframe(TRUE)]
    /\ store' = store
    /\ SaversOnly

\* self._save_dataframe(pd.concat([df, new_row])): the file is replaced
DataframeSaved(p) ==
    /\ savers.proc[p].pc = "write"
    /\ store' = Append(savers.proc[p].df, to_dict(PaymentOf(savers.proc[p].id)))
    /\ savers' = [savers EXCEPT !.proc[p].pc = "idle",
                                !.proc[p].seen = @ \cup {savers.proc[p].id},
                                !.proc[p].df = <<>>]
    /\ SaversOnly

NextSavers ==
    \/ \E p \in Procs : SaveRecordCalled(p)
    \/ \E p \in Procs : RecordExistsChecked(p)
    \/ \E p \in Procs : DataframeLoaded(p)
    \/ \E p \in Procs : DataframeSaved(p)

SpecSavers == InitSavers /\ [][NextSavers]_vars

\* ============================================================ claims
RowKey(row) == << row.Date, row.Amount, row.Source, row.ClientName >>

IsPrefix(s, t) == Len(s) <= Len(t) /\ \A i \in DOMAIN s : s[i] = t[i]

RowsFrom(id) == {i \in DOMAIN origin : origin[i].id = id}

AllSenders == [i \in 1..NumSenders |-> i]

\* C1: the store never holds two rows with the same (date, amount,
\* provider, payer name), whatever cycles, restarts, mail failures and store
\* read/write failures have happened.
C1_NoDuplicateRows ==
    \A i, j \in DOMAIN store : RowKey(store[i]) = RowKey(store[j]) => i = j

\* C2: within one process the seen set only grows, and a message in it has
\* been fetched exactly once and appended at most once (exactly once when
\* its write succeeded); presenting it again changes neither count.
C2_SeenMessageHandledOnce ==
    [][/\ \A id \in processed_emails' :
            /\ hist'[id].fetches = 1
            /\ hist'[id].appends <= 1
            /\ hist'[id].outcome = "written" <=> hist'[id].appends = 1
       /\ restarts' = restarts =>
            /\ processed_emails \subseteq processed_emails'
            /\ \A id \in processed_emails : hist'[id] = hist[id]]_vars

\* a later cycle has presented every message again (message 4 under two
\* senders) and returned: message 1, written before, was only skipped
C2_Witness ==
    /\ cycleDone
    /\ records_processed = 0
    /\ hist[1].outcome = "written" /\ hist[1].fetches = 1
    /\ <<1, 1>> \in visited
    /\ <<2, 4>> \in visited /\ <<7, 4>> \in visited /\ hist[4].fetches = 1

\* C3: a message fed through the pipeline by two fresh processes leaves
\* exactly one row, parseable Date header or not, however much time passes
\* between the runs (stated for runs without any mail or store failure).
C3_OneRowPerMessage ==
    faults = 0 => \A id \in EmailIds : Cardinality(RowsFrom(id)) <= 1

\* C4: every step that calls save_record keeps the rows that were in the
\* store, in order, and adds at most one row, at the end.
C4_AppendOnly ==
    [][IsPrefix(store, store') /\ Len(store') <= Len(store) + 1]_vars

\* C5: the count a check cycle returns is the number of rows that cycle
\* appended to the store.
C5_CountIsRowsAppended ==
    cycleDone => records_processed = cycleAppended

\* C6: a mail-connection failure for one sender ends that sender only: the
\* senders are searched in list order without a gap, and the cycle returns
\* only after every sender of the list has been searched.
C6_LaterSendersQueried ==
    /\ IsPrefix(searched, AllSenders)
    /\ cycleDone => searched = AllSenders
    /\ pc = "idle" /\ ~cycleDone => searched = <<>>

\* a cycle has returned after a connection failure at a sender that is not
\* the last one
C6_Witness ==
    /\ cycleDone
    /\ searched = AllSenders
    /\ \E i \in 1..(NumSenders - 1) : senderLog[i].status = "conn_error"

\* C7: an exception raised while decoding or extracting one message skips
\* that message only: of a sender that was left without a connection
\* failure, every listed message was visited in the cycle.
C7_LaterMessagesVisited ==
    \A i \in 1..NumSenders :
        senderLog[i].status \in {"complete", "exception"} =>
            \A k \in DOMAIN senderLog[i].listed :
                <<i, senderLog[i].listed[k]>> \in visited

\* C8: a message that went through the pipeline, with whatever outcome (no
\* provider, extraction failure, duplicate, written, StorageError), is in
\* the seen set, and save_record was called for it at most once in this
\* process.
C8_HandledIsSeen ==
    \A id \in EmailIds :
        hist[id].outcome # "none" =>
            /\ id \in processed_emails
            /\ hist[id].fetches = 1
            /\ hist[id].saves <= 1

\* a later cycle has returned without writing anything although the
\* write of message 1 had raised StorageError; the other outcomes occurred
C8_Witness ==
    /\ cycleDone
    /\ records_processed = 0
    /\ hist[1].outcome = "storage_error" /\ hist[1].saves = 1
    /\ <<1, 1>> \in visited
    /\ hist[4].outcome = "no_provider"
    /\ hist[5].outcome = "malformed"
    /\ hist[7].outcome = "written"

\* C9: with the store readable, save_record skips the candidate exactly
\* when a stored row has the same date, the same Decimal amount, the same
\* provider and the same payer name: a different subject alone does not
\* make a candidate new, an amount 0.01 apart does.
C9_ExactKey ==
    lastSave.called /\ lastSave.reads_ok =>
        (lastSave.outcome = "dup" <=> lastSave.key_in_store)

SenderCondition(i, from_email) ==
    \E k \in DOMAIN from_email : Lower(from_email[k]) \in from_emails(PaymentSources[i])

SubjectCondition(i, subject) ==
    \E k \in DOMAIN subject : Lower(subject[k]) \in subject_keywords(PaymentSources[i])

BothConditions(i) ==
    SenderCondition(i, cls.from_email) /\ SubjectCondition(i, cls.subject)

\* C10 (as stated): identify_payment_source returns a provider if and only
\* if that provider's sender and subject conditions both hold, and none
\* when no provider has both.
C10_ProviderIffBothConditions ==
    cls.called =>
        /\ \A i \in DOMAIN PaymentSources :
             cls.source = PaymentSources[i] <=> BothConditions(i)
        /\ cls.source = "None" <=> \A i \in DOMAIN PaymentSources : ~BothConditions(i)

\* C10 (amended): identify_payment_source returns a provider if and only if
\* both of its conditions hold and hold for no provider before it in the
\* order Zelle, Venmo, CashApp, PayPal; it returns none when no provider
\* has both.
C10_FirstProviderWithBothConditions ==
    cls.called =>
        /\ \A i \in DOMAIN PaymentSources :
             cls.source = PaymentSources[i] <=>
                 (BothConditions(i) /\ \A j \in 1..(i - 1) : ~BothConditions(j))
        /\ cls.source = "None" <=> \A i \in DOMAIN PaymentSources : ~BothConditions(i)

\* a From header naming two providers, in upper case, with a keyword both
\* providers have: the first provider of the order is returned
C10_Witness ==
    /\ cls.called
    /\ cls.from_email = <<"Service@PayPal.com", "ALERT@ZELLEPAY.COM">>
    /\ cls.subject = <<"Payment">>
    /\ cls.source = "Zelle"

\* C11: in continuous mode a KeyboardInterrupt, at whatever point it
\* arrives (in a check cycle, in the interval sleep, in the 60-second
\* backoff sleep), ends the loop: run_continuous_monitoring has returned
\* normally and no further step of a cycle is taken.
C11_InterruptEndsLoop ==
    mon.interrupts > 0 => mon.pc = "returned"

\* C12: once continuous monitoring has started no exception other than an
\* interrupt ends the loop: it never leaves by an exception and returns only
\* after an interrupt; a cycle, failed or not, is followed by a sleep of
\* the configured interval, an error that escapes the cycle by a sleep of
\* 60 seconds, and after either sleep the next cycle is started.
C12_OnlyInterruptEndsLoop ==
    [][/\ mon'.pc # "raised"
       /\ mon'.pc = "returned" => mon'.interrupts > 0
       /\ mon'.pc = "sleep" => ~mon'.escaped /\ mon'.sleeping = mon'.check_interval
       /\ mon'.pc = "backoff" => mon'.escaped /\ mon'.sleeping = 60
       /\ mon.pc = "cycle" => mon'.pc \in {"cycle", "sleep", "backoff", "returned"}
       /\ mon.pc \in {"sleep", "backoff"} => mon'.pc \in {mon.pc, "top", "returned"}
       /\ mon.pc = "top" => mon'.pc \in {"top", "cycle"}]_vars

\* a second cycle is running after the write of message 1 had raised
\* StorageError in the first and time.sleep(-5) had raised ValueError
C12_Witness ==
    /\ mon.pc = "cycle"
    /\ mon.cycles = 2
    /\ mon.escaped
    /\ mon.sleeping = 60
    /\ mon.interrupts = 0
    /\ hist[1].outcome = "storage_error"

\* C13: every IMAP session that connection() opened has been closed and
\* logged out when the scope is left, on every exit path: normal exit,
\* failed login, exception in the body, no mailbox selected.
C13_SessionReleased ==
    imap.pc = "left" /\ imap.opened => imap.closed /\ imap.logged_out

Range(seq) == {seq[i] : i \in DOMAIN seq}

PositiveInteger(str) == int(str).ok /\ int(str).value > 0

\* the settings of the process environment that are missing or invalid
Offending(environ) ==
    {setting \in {"EMAIL_ADDRESS", "EMAIL_PASSWORD"} : environ[setting] \in {"unset", ""}}
    \cup {setting \in {"CHECK_INTERVAL"} :
            environ[setting] # "unset" /\ ~PositiveInteger(environ[setting])}

\* C14: when EMAIL_ADDRESS or EMAIL_PASSWORD is missing or CHECK_INTERVAL
\* is not a positive integer, no tracker is built, no mail connection is
\* opened and no cycle runs, and the command ends with a failure status
\* after printing a list that names every offending setting.
C14_OffendingSettingsListed ==
    Offending(cli.environ) # {} =>
        /\ ~cli.tracker_built /\ ~cli.connection_opened /\ ~cli.cycle_ran
        /\ cli.pc = "exit" =>
              /\ cli.exit_status = "1"
              /\ cli.output = "missing_vars"
              /\ Offending(cli.environ) \subseteq Range(cli.missing_vars)

\* C20: the .env file is loaded before the four settings are read, and
\* validate_environment does not report as missing a credential that
\* os.environ or the .env file supplies.
C20_DotenvHonoured ==
    /\ cli.read => cli.loaded_at_read
    /\ cli.validated =>
          \A setting \in {"EMAIL_ADDRESS", "EMAIL_PASSWORD"} :
              load_dotenv(cli.environ, cli.dotenv)[setting] \notin {"unset", ""} =>
                  setting \notin Range(cli.missing_vars)

ExtSubject == decode_subject(ext.msg).text

ExtText == extract_body(ext.msg).text \o ExtSubject

ExtProvider == \E i \in DOMAIN PaymentSources : SenderCondition(i, ext.msg.from)
                                                /\ SubjectCondition(i, ExtSubject)

AmountHits == {i \in DOMAIN ExtText : ExtText[i] \in AmountTokens}

\* C15: for a message of a provider, the extraction fails as "amount not
\* found" exactly when the body and subject hold no amount, and as the
\* distinct "amount malformed" exactly when the first amount in them (the
\* bare "$,") is no decimal; either way process_email returns no record
\* and raises nothing, the store is left as it was and the message is
\* marked.
C15_AmountFailureKinds ==
    ext.calls > 0 /\ ExtProvider =>
        /\ ext.outcome = "not_found" <=> AmountHits = {}
        /\ ext.outcome = "malformed" <=>
              (AmountHits # {} /\ ExtText[Min(AmountHits)] = "$,")
        /\ ext.outcome \in {"not_found", "malformed"} =>
              /\ ~ext.result.found
              /\ ~ext.result.raised
              /\ ext.marked
              /\ store = <<>>

\* a Zelle message whose first amount is the bare "$," has been handled
C15_Witness ==
    /\ ext.calls > 0
    /\ ext.msg.from = <<"alert@zellepay.com">>
    /\ extract_body(ext.msg).text = <<"$,", "$75.00">>
    /\ ext.outcome = "malformed"
    /\ store = <<>>

AmountParses == AmountHits # {} /\ ExtText[Min(AmountHits)] # "$,"

ExtVerb == IF ext.msg.from = <<"venmo@venmo.com">> THEN "paid you" ELSE "sent you"

\* where "NAME verb" or "from NAME" begins in the body and subject
NameHits ==
    {i \in DOMAIN ExtText :
        /\ i + 1 \in DOMAIN ExtText
        /\ \/ ExtText[i] \in NameTokens /\ ExtText[i + 1] = ExtVerb
           \/ ExtText[i] = "from" /\ ExtText[i + 1] \in NameTokens}

\* C16: a message of a provider with a parseable amount produces a record
\* whose payer is the name of the leftmost "NAME verb" or "from NAME" of
\* the body and subject, and exactly "Unknown" when there is none; the
\* record, named or not, reaches save_record and its row is in the store.
C16_NameOrUnknownIsRecorded ==
    ext.calls > 0 /\ ExtProvider /\ AmountParses =>
        /\ ext.result.found
        /\ NameHits = {} <=> ext.result.record.client_name = "Unknown"
        /\ NameHits # {} =>
              ext.result.record.client_name =
                  IF ExtText[Min(NameHits)] = "from" THEN ExtText[Min(NameHits) + 1]
                  ELSE ExtText[Min(NameHits)]
        /\ ext.outcome \in {"written", "dup"}
        /\ Len(store) = 1
        /\ store[1].ClientName = ext.result.record.client_name

\* C17: a message of a provider with a parseable amount whose Date header
\* is missing or does not parse produces a record dated today, and nothing
\* is raised.
C17_BadDateIsToday ==
    ext.calls > 0 /\ ExtProvider /\ AmountParses /\ ext.msg.date \notin ParsableDates =>
        /\ ~ext.result.raised
        /\ ext.outcome # "exception"
        /\ ext.result.found
        /\ ext.result.record.date = ext.now

\* C18: get_summary_stats reports count 0 and total 0 for an empty store;
\* count 1, total = mean = max = min = 50.00, one payer and a count of 1
\* for the provider for a store of one 50.00 record; and for every store
\* the number of its rows and the sum of their amounts.
C18_StatsOfStore ==
    stats.called =>
        /\ stats.result.total_records = Len(store)
        /\ stats.result.total_amount = SumAmounts(store)
        /\ Len(store) = 1 /\ store[1].Amount = <<0, 5000>> =>
              /\ stats.result.average_amount = <<5000, 1>>
              /\ stats.result.max_amount = 5000
              /\ stats.result.min_amount = 5000
              /\ stats.result.unique_clients = 1
              /\ stats.result.by_source = [source \in {store[1].Source} |-> 1]

\* C19: with two processes saving to the same file the existence check and
\* the append are not one step: the store holds two rows with the same
\* (date, amount, provider, payer name) only after one process passed
\* record_exists while the other was between its own check and its write,
\* and there is such an interleaving on one payment that ends with its
\* row twice in the store.
C19_DuplicateOnlyByRace ==
    (\E i, j \in DOMAIN store : i # j /\ RowKey(store[i]) = RowKey(store[j]))
        => savers.raced

\* both processes passed record_exists for the payment of message 1 and
\* both have written: the store holds its row twice
C19_Witness ==
    /\ 1 \in savers.overlapped
    /\ \A p \in Procs : savers.proc[p].pc = "idle" /\ 1 \in savers.proc[p].seen
    /\ \E i, j \in DOMAIN store :
        /\ i # j
        /\ RowKey(store[i]) = RowKey(to_dict(PaymentOf(1)))
        /\ RowKey(store[j]) = RowKey(to_dict(PaymentOf(1)))

\* C21: get_supported_senders is the eight sender addresses of the four
\* providers, each once, in ascending order, and a check cycle searches
\* each address of that list once, in list order, whatever happened at the
\* senders before it; the cycle returns only after the last one.
C21_SortedSendersSearchedOnce ==
    /\ Range(get_supported_senders) =
           UNION {from_emails(PaymentSources[i]) : i \in DOMAIN PaymentSources}
    /\ Len(get_supported_senders) = 8
    /\ \A i \in 1..(Len(get_supported_senders) - 1) :
           StrLess(get_supported_senders[i], get_supported_senders[i + 1])
    /\ \A k \in DOMAIN searched : searched[k] = k
    /\ Len(searched) <= Len(get_supported_senders)
    /\ cycleDone => Len(searched) = Len(get_supported_senders)

\* a cycle has returned in which one sender was left by an unexpected
\* exception and another by a connection failure
C21_Witness ==
    /\ cycleDone
    /\ Len(searched) = 8
    /\ \E i, j \in 1..(NumSenders - 1) :
        /\ senderLog[i].status = "exception"
        /\ senderLog[j].status = "conn_error"

ProviderOrder == <<"Zelle", "Venmo", "CashApp", "PayPal">>

\* the providers, by place in ProviderOrder, whose two conditions the
\* classified input satisfies
ProvidersWithBoth ==
    {i \in DOMAIN ProviderOrder :
        /\ \E k \in DOMAIN cls.from_email :
              Lower(cls.from_email[k]) \in from_emails(ProviderOrder[i])
        /\ \E k \in DOMAIN cls.subject :
              Lower(cls.subject[k]) \in subject_keywords(ProviderOrder[i])}

\* C22: for an input that satisfies both conditions of more than one
\* provider, identify_payment_source returns the first of them in the order
\* Zelle, Venmo, CashApp, PayPal, and a repeated call on the same input
\* returns what the first call returned.
C22_FirstInFixedOrderEveryCall ==
    cls.called =>
        /\ Cardinality(ProvidersWithBoth) > 1 =>
              cls.source = ProviderOrder[Min(ProvidersWithBoth)]
        /\ cls.source = cls.first

\* a From header naming CashApp and then Venmo with the keyword they
\* share, classified twice: Venmo both times
C22_Witness ==
    /\ cls.calls = 2
    /\ cls.from_email = <<"cash@square.com", "venmo@venmo.com">>
    /\ cls.subject = <<"payment">>
    /\ Cardinality(ProvidersWithBoth) = 2
    /\ cls.source = "Venmo"
    /\ cls.first = "Venmo"

\* C23: in continuous mode a cycle begins only while no cycle is active;
\* the cycle before it has returned, after searching every sender when it
\* returned without error, and exactly one sleep has returned since: of
\* the configured interval, or of 60 seconds after an error that escaped
\* the cycle.  No step of a cycle is taken outside a cycle.
C23_CyclesSequential ==
    [][/\ (mon.pc = "top" /\ mon'.pc = "cycle") =>
            /\ pc = "idle"
            /\ mon.cycles > 0 =>
                  /\ mon.result \in {"ok", "error"}
                  /\ mon.result = "ok" => cycleDone /\ searched = AllSenders
                  /\ mon.slept = 1
                  /\ mon.sleeping = IF mon.escaped THEN 60 ELSE mon.check_interval
       /\ mon'.pc # "cycle" => pc' = "idle"
       /\ (mon.pc = "cycle" /\ mon'.pc # "cycle") => mon'.pc # "top"]_vars

\* a second cycle is under way after a first one that searched all eight
\* senders, returned without error and was followed by one interval sleep
C23_Witness ==
    /\ mon.pc = "cycle"
    /\ mon.cycles = 2
    /\ mon.result = "ok"
    /\ ~mon.escaped
    /\ mon.sleeping = 300
    /\ mon.slept = 1
    /\ pc = "loop"
    /\ 1 \in processed_emails

\* the rows of the store with the key of the record of message id
RowsWithKeyOf(id) ==
    {i \in DOMAIN store : RowKey(store[i]) = RowKey(to_dict(Candidate(id).record))}

\* C24: messages 1 and 6 are two messages with the same date, amount,
\* provider and payer name.  Once save_record has returned for both of them
\* without StorageError the store holds exactly one row with that key, and
\* both identifiers are in the seen set.
C24_EqualKeyMessagesOneRow ==
    /\ RowKey(to_dict(Candidate(1).record)) = RowKey(to_dict(Candidate(6).record))
    /\ (hist[1].outcome \in {"written", "dup"} /\ hist[6].outcome \in {"written", "dup"}) =>
          /\ Cardinality(RowsWithKeyOf(1)) = 1
          /\ {1, 6} \subseteq processed_emails

\* the messages the senders of this cycle have listed so far
ListedThisCycle ==
    UNION {Range(senderLog[i].listed) : i \in 1..NumSenders}

\* C25: a message for which fetch_email gave no message is not in the seen
\* set, has no outcome and was not passed to save_record; and when a later
\* cycle that listed it returns, fetch_email has been called for it again
\* in that cycle.
C25_UnfetchedIsRefetched ==
    /\ \A id \in EmailIds :
          hist[id].due # 0 =>
              /\ id \notin processed_emails
              /\ hist[id].outcome = "none"
              /\ hist[id].saves = 0
              /\ hist[id].appends = 0
    /\ cycleDone => \A id \in ListedThisCycle : hist[id].due # 2

\* C26: when the read of the file fails inside record_exists, the lookup
\* raises nothing and answers false: save_record does not skip the
\* candidate and, its own read and write succeeding, appends the row, also
\* when a row with the same key is stored, which is then stored twice.
C26_ExistenceCheckFailsOpen ==
    lastSave.called /\ ~lastSave.exists_ok =>
        /\ lastSave.outcome # "dup"
        /\ lastSave.write_ok => lastSave.outcome = "written"
        /\ lastSave.write_ok /\ lastSave.load_ok /\ lastSave.key_in_store =>
              \E i, j \in DOMAIN store : i # j /\ RowKey(store[i]) = RowKey(store[j])

\* the row of message 1 is stored, and save_record for message 6, which
\* has the same key, has appended it again after a failed lookup
C26_Witness ==
    /\ lastSave.called
    /\ ~lastSave.exists_ok
    /\ lastSave.key_in_store
    /\ lastSave.outcome = "written"
    /\ hist[6].outcome = "written"
    /\ Len(store) = 2
    /\ RowKey(store[1]) = RowKey(store[2])

\* C27, as a property of finite runs: in continuous mode, when a cycle
\* returns in a run in which no connection, search, fetch or store
\* operation has failed and no interrupt has arrived, every message the
\* cycle listed is in the seen set, the messages listed after a message
\* whose processing raises an unexpected exception included.
C27_ListedMessagesSeen ==
    (mon.pc = "cycle" /\ cycleDone /\ faults = 0 /\ mon.interrupts = 0) =>
        ListedThisCycle \subseteq processed_emails

\* C28: with two processes saving to the same file, a record for which
\* save_record has returned in some process (written, or skipped as stored)
\* has its row in the store: the write of one process does not remove the
\* row the other has written.
C28_NoRowLost ==
    \A p \in DOMAIN savers.proc :
        \A id \in savers.proc[p].seen :
            \E i \in DOMAIN store : RowKey(store[i]) = RowKey(to_dict(PaymentOf(id)))

====
